---- MODULE Spec2Model ----
(***************************************************************************)
(* mboot_parts.py: parse the output of mboot's 'mmc part' and print, for   *)
(* every partition, the U-Boot commands that dump it to a USB stick.       *)
(*                                                                         *)
(* Text is modelled by TLA+ strings; the character at position i of s is   *)
(* SubSeq(s, i, i).  Python integers are unbounded, and so are Int here.   *)
(***************************************************************************)
EXTENDS Integers, Sequences, FiniteSets, TLC

VARIABLES
    input,   \* main: the text of the file INPUT_FILENAME
    fpos,    \* main: characters of the file consumed by f.readline()
    parts,   \* main: slurp's list of PartInfo
    cur,     \* main: records print_dump_commands has gone through
    out,     \* main: the lines printed on standard output
    pc,      \* main: "slurp", "print", "done" or "failed" (uncaught ValueError)
    fields,  \* parse harness: the pieces the argument line is made of
    line,    \* parse harness: the argument of PartInfo.parse
    args,    \* constructor harness: the arguments of PartInfo(...)
    obj,     \* harnesses: the PartInfo returned, an exception, or NotCalled
    ret      \* constructor harness: the last method call and what it returned

vars == <<input, fpos, parts, cur, out, pc, fields, line, args, obj, ret>>

mainVars == <<input, fpos, parts, cur, out, pc>>

harnessVars == <<fields, line, args, obj, ret>>

-----------------------------------------------------------------------------
(* Module constants                                                        *)

BUF_ADDR == 620756992

SIZE_LIMIT == 33554432

BLKSZ == 512

-----------------------------------------------------------------------------
(* Characters and the classes of the regular expression (re.ASCII)         *)

Ch(s, i) == SubSeq(s, i, i)

(* \s is [ \t\n\r\f\v]; no line of the model holds a vertical tab          *)
Space == {" ", "\t", "\n", "\r", "\f"}

Digit == {"0", "1", "2", "3", "4", "5", "6", "7", "8", "9"}

Word == Digit \cup {"_"} \cup
    {"a", "b", "c", "d", "e", "f", "g", "h", "i", "j", "k", "l", "m",
     "n", "o", "p", "q", "r", "s", "t", "u", "v", "w", "x", "y", "z",
     "A", "B", "C", "D", "E", "F", "G", "H", "I", "J", "K", "L", "M",
     "N", "O", "P", "Q", "R", "S", "T", "U", "V", "W", "X", "Y", "Z"}

(* _regex with the trailing \s+ turned into \s* (mutant)                   *)
regex_trail_optional == <<
    [cls |-> Space, min |-> 0, many |-> TRUE],
    [cls |-> Digit, min |-> 1, many |-> TRUE],
    [cls |-> {":"}, min |-> 1, many |-> FALSE],
    [cls |-> Space, min |-> 1, many |-> TRUE],
    [cls |-> Word,  min |-> 1, many |-> TRUE],
    [cls |-> Space, min |-> 1, many |-> TRUE],
    [cls |-> Digit, min |-> 1, many |-> TRUE],
    [cls |-> Space, min |-> 1, many |-> FALSE],
    [cls |-> {"@"}, min |-> 1, many |-> FALSE],
    [cls |-> Space, min |-> 1, many |-> FALSE],
    [cls |-> Digit, min |-> 1, many |-> TRUE],
    [cls |-> Space, min |-> 0, many |-> TRUE] >>

(* _regex with the @ made optional, \s@?\s (mutant)                       *)
regex_at_optional == <<
    [cls |-> Space, min |-> 0, many |-> TRUE],
    [cls |-> Digit, min |-> 1, many |-> TRUE],
    [cls |-> {":"}, min |-> 1, many |-> FALSE],
    [cls |-> Space, min |-> 1, many |-> TRUE],
    [cls |-> Word,  min |-> 1, many |-> TRUE],
    [cls |-> Space, min |-> 1, many |-> TRUE],
    [cls |-> Digit, min |-> 1, many |-> TRUE],
    [cls |-> Space, min |-> 1, many |-> FALSE],
    [cls |-> {"@"}, min |-> 0, many |-> FALSE],
    [cls |-> Space, min |-> 1, many |-> FALSE],
    [cls |-> Digit, min |-> 1, many |-> TRUE],
    [cls |-> Space, min |-> 1, many |-> TRUE] >>

(* _regex, one entry per element of the pattern: the characters it takes,  *)
(* the least number of them, and whether it may take more than one.        *)
(*   ^\s*(?P<index>\d+):\s+(?P<name>\w+)\s+(?P<size>\d+)\s@\s(?P<offset>\d+)\s+ *)
regex == <<
    [cls |-> Space, min |-> 0, many |-> TRUE],     \*  1  \s*
    [cls |-> Digit, min |-> 1, many |-> TRUE],     \*  2  (?P<index>\d+)
    [cls |-> {":"}, min |-> 1, many |-> FALSE],    \*  3  :
    [cls |-> Space, min |-> 1, many |-> TRUE],     \*  4  \s+
    [cls |-> Word,  min |-> 1, many |-> TRUE],     \*  5  (?P<name>\w+)
    [cls |-> Space, min |-> 1, many |-> TRUE],     \*  6  \s+
    [cls |-> Digit, min |-> 1, many |-> TRUE],     \*  7  (?P<size>\d+)
    [cls |-> Space, min |-> 1, many |-> FALSE],    \*  8  \s
    [cls |-> {"@"}, min |-> 1, many |-> FALSE],    \*  9  @
    [cls |-> Space, min |-> 1, many |-> FALSE],    \* 10  \s
    [cls |-> Digit, min |-> 1, many |-> TRUE],     \* 11  (?P<offset>\d+)
    [cls |-> Space, min |-> 1, many |-> TRUE] >>   \* 12  \s+

NoMatch == <<-1>>

(* The number of consecutive characters of s after position i that are in  *)
(* cls.                                                                    *)
RECURSIVE RunLength(_, _, _)
RunLength(s, i, cls) ==
    IF i < Len(s) /\ Ch(s, i + 1) \in cls
    THEN 1 + RunLength(s, i + 1, cls)
    ELSE 0

(* re.match(pattern, s): element k onwards matched at position i.  Every   *)
(* quantifier is greedy: it takes as many characters as it can and gives   *)
(* them back one at a time while the rest of the pattern fails.  The       *)
(* result is the end position of every element from k on, or NoMatch.      *)
(* The pattern has no $: the match need not reach the end of s.            *)
RECURSIVE MatchFrom(_, _, _), TryCount(_, _, _, _)
MatchFrom(s, k, i) ==
    IF k > Len(regex) THEN <<>>
    ELSE LET e   == regex[k]
             run == RunLength(s, i, e.cls)
             hi  == IF e.many \/ run = 0 THEN run ELSE 1
         IN  TryCount(s, k, i, hi)

TryCount(s, k, i, c) ==
    IF c < regex[k].min THEN NoMatch
    ELSE LET rest == MatchFrom(s, k + 1, i + c)
         IN  IF rest # NoMatch THEN <<i + c>> \o rest
             ELSE TryCount(s, k, i, c - 1)

(* re.fullmatch in place of re.match (mutant)                              *)
re_fullmatch(s) ==
    LET m == MatchFrom(s, 1, 0)
    IN  IF m # NoMatch /\ m[Len(m)] = Len(s) THEN m ELSE NoMatch

re_match(s) == MatchFrom(s, 1, 0)

(* match.groupdict(): the text of the four named groups                    *)
groupdict(s, m) ==
    [index  |-> SubSeq(s, m[1] + 1, m[2]),
     name   |-> SubSeq(s, m[4] + 1, m[5]),
     size   |-> SubSeq(s, m[6] + 1, m[7]),
     offset |-> SubSeq(s, m[10] + 1, m[11])]

-----------------------------------------------------------------------------
(* Conversions between numbers and text                                    *)

DigitValue(c) ==
    CASE c = "0" -> 0 [] c = "1" -> 1 [] c = "2" -> 2 [] c = "3" -> 3
      [] c = "4" -> 4 [] c = "5" -> 5 [] c = "6" -> 6 [] c = "7" -> 7
      [] c = "8" -> 8 [] c = "9" -> 9

(* int(s) for a non-empty string of decimal digits                         *)
RECURSIVE int(_)
int(s) ==
    IF Len(s) = 1 THEN DigitValue(s)
    ELSE 10 * int(SubSeq(s, 1, Len(s) - 1)) + DigitValue(Ch(s, Len(s)))

HexDigits == <<"0", "1", "2", "3", "4", "5", "6", "7",
               "8", "9", "a", "b", "c", "d", "e", "f">>

(* f"{n:X}": uppercase hexadecimal (mutant)                               *)
RECURSIVE FormatHex_upper(_)
FormatHex_upper(n) ==
    IF n < 16 THEN <<"0", "1", "2", "3", "4", "5", "6", "7",
                     "8", "9", "A", "B", "C", "D", "E", "F">>[n + 1]
    ELSE FormatHex_upper(n \div 16) \o
         <<"0", "1", "2", "3", "4", "5", "6", "7",
           "8", "9", "A", "B", "C", "D", "E", "F">>[(n % 16) + 1]

(* f"{n:x}" for n >= 0: lowercase hexadecimal, no leading zeros            *)
RECURSIVE FormatHex(_)
FormatHex(n) ==
    IF n < 16 THEN HexDigits[n + 1]
    ELSE FormatHex(n \div 16) \o HexDigits[(n % 16) + 1]

(* f"{n:d}" for n >= 0: decimal, no padding                                *)
RECURSIVE FormatDec(_)
FormatDec(n) ==
    IF n < 10 THEN HexDigits[n + 1]
    ELSE FormatDec(n \div 10) \o HexDigits[(n % 10) + 1]

-----------------------------------------------------------------------------
(* class PartInfo                                                          *)

NotCalled == [exc |-> "", msg |-> "not called"]

ValueError(msg) == [exc |-> "ValueError", msg |-> msg]

IsError(r) == "exc" \in DOMAIN r

(* __init__ without the check of blocks (mutant)                          *)
PartInfo_blocks_unchecked(index, name, start_block, blocks) ==
    IF index < 0 THEN ValueError("index can't be negative")
    ELSE IF start_block < 0 THEN ValueError("offset can't be negative")
    ELSE [index |-> index, name |-> name,
          start_block |-> start_block, blocks |-> blocks]

(* PartInfo.__init__: the object, or the ValueError it raises              *)
PartInfo(index, name, start_block, blocks) ==
    IF index < 0 THEN ValueError("index can't be negative")
    ELSE IF start_block < 0 THEN ValueError("offset can't be negative")
    ELSE IF blocks < 0 THEN ValueError("blocks can't be negative")
    ELSE [index |-> index, name |-> name,
          start_block |-> start_block, blocks |-> blocks]

size(p) == p.blocks * BLKSZ

start(p) == p.start_block * BLKSZ

(* end() adding the block count for the byte count (mutant)              *)
end_plus_blocks(p) == start(p) + p.blocks

end(p) == start(p) + size(p)

make_dump_command(p) ==
    LET filename  == "part" \o FormatDec(p.index) \o ".bin"
        x_addr    == "0x" \o FormatHex(BUF_ADDR)
        x_size    == "0x" \o FormatHex(size(p))
        cmd_read  == "mmc read.p " \o x_addr \o " " \o p.name \o " " \o x_size
        cmd_write == "fatwrite usb 0:1 " \o x_addr \o " " \o filename \o " " \o x_size
    IN  cmd_read \o "; " \o cmd_write

(* parse passing size and offset in the order of the text (mutant)        *)
parse_size_offset_swapped(s) ==
    LET m == re_match(s)
    IN  IF m = NoMatch THEN ValueError("regex doesn't match")
        ELSE LET d == groupdict(s, m)
             IN  PartInfo(int(d.index), d.name, int(d.size), int(d.offset))

(* PartInfo.parse: the object, or the ValueError raised                    *)
parse(s) ==
    LET m == re_match(s)
    IN  IF m = NoMatch THEN ValueError("regex doesn't match")
        ELSE LET d == groupdict(s, m)
             IN  PartInfo(int(d.index), d.name, int(d.offset), int(d.size))

-----------------------------------------------------------------------------
(* Harness for PartInfo.parse: the function applied once to a line made of *)
(* the pieces in fields.                                                   *)

Leads == {"", " \t"}

IndexTexts == {"0", "12", "007"}

Seps1 == {" ", " \t"}

Names == {"boot", "a_1"}

Seps2 == {" ", "  "}

SizeTexts == {"8192", "0", "65537", "8x92", "0x10", "-1"}

Ats == {" @ ", "\t@\t", "  ", "@", "  @ "}

OffsetTexts == {"2048", "0"}

Trails == {"", " ", "\n", "   \n"}

Extras == {"", "extra", "# c\n"}

BlankLeads == {"", " ", "\n", " \t\n"}

ParseInputs ==
    [lead : Leads, index : IndexTexts, colon : {":"}, sep1 : Seps1,
     name : Names, sep2 : Seps2, size : SizeTexts, at : Ats,
     offset : OffsetTexts, trail : Trails, extra : Extras]
    \cup
    [lead : BlankLeads, index : {""}, colon : {""}, sep1 : {""},
     name : {""}, sep2 : {""}, size : {""}, at : {""},
     offset : {""}, trail : {""}, extra : {""}]

LineOf(f) ==
    f.lead \o f.index \o f.colon \o f.sep1 \o f.name \o f.sep2 \o f.size
           \o f.at \o f.offset \o f.trail \o f.extra

NoFields == [lead |-> "", index |-> "", colon |-> "", sep1 |-> "",
             name |-> "", sep2 |-> "", size |-> "", at |-> "",
             offset |-> "", trail |-> "", extra |-> ""]

NoArgs == [index |-> 0, name |-> "", start_block |-> 0, blocks |-> 0]

NoCall == [fn |-> "", val |-> 0]

MainIdle ==
    /\ input = ""
    /\ fpos = 0
    /\ parts = <<>>
    /\ cur = 0
    /\ out = <<>>
    /\ pc = "idle"

InitParse ==
    /\ MainIdle
    /\ fields \in ParseInputs
    /\ line = LineOf(fields)
    /\ args = NoArgs
    /\ obj = NotCalled
    /\ ret = NoCall

ParseCall ==
    /\ obj = NotCalled
    /\ obj' = parse(line)
    /\ UNCHANGED <<mainVars, fields, line, args, ret>>

NextParse == ParseCall

SpecParse == InitParse /\ [][NextParse]_vars

-----------------------------------------------------------------------------
(* Harness for the constructor and the methods of PartInfo                 *)

MaxField == 2

IndexValues == (-1 .. MaxField) \cup {12}

StartValues == {-1, 0, 2048}

BlockValues == (-1 .. MaxField) \cup {21, 8192, 65536, 65537}

InitPartInfo ==
    /\ MainIdle
    /\ fields = NoFields
    /\ line = ""
    /\ args \in [index : IndexValues, name : Names,
                 start_block : StartValues, blocks : BlockValues]
    /\ obj = NotCalled
    /\ ret = NoCall

Construct ==
    /\ obj = NotCalled
    /\ obj' = PartInfo(args.index, args.name, args.start_block, args.blocks)
    /\ UNCHANGED <<mainVars, fields, line, args, ret>>

CallSize ==
    /\ obj # NotCalled /\ ~IsError(obj)
    /\ ret' = [fn |-> "size", val |-> size(obj)]
    /\ UNCHANGED <<mainVars, fields, line, args, obj>>

CallStart ==
    /\ obj # NotCalled /\ ~IsError(obj)
    /\ ret' = [fn |-> "start", val |-> start(obj)]
    /\ UNCHANGED <<mainVars, fields, line, args, obj>>

CallEnd ==
    /\ obj # NotCalled /\ ~IsError(obj)
    /\ ret' = [fn |-> "end", val |-> end(obj)]
    /\ UNCHANGED <<mainVars, fields, line, args, obj>>

CallMakeDumpCommand ==
    /\ obj # NotCalled /\ ~IsError(obj)
    /\ ret' = [fn |-> "make_dump_command", val |-> make_dump_command(obj)]
    /\ UNCHANGED <<mainVars, fields, line, args, obj>>

NextPartInfo ==
    \/ Construct
    \/ CallSize
    \/ CallStart
    \/ CallEnd
    \/ CallMakeDumpCommand

SpecPartInfo == InitPartInfo /\ [][NextPartInfo]_vars

-----------------------------------------------------------------------------
(* The program: main() = slurp(INPUT_FILENAME), then print_dump_commands   *)

MaxLines == 3

(* The rows an input file is made of, without their line terminator        *)
Rows == {"0: boot 8192 @ 2048   ",
         " 12: big_1 65537 @ 10240",
         "3: lim 65536 @ 0",
         "\t4: nil 0 @ 7",
         "",
         "7: x 1 @ 2 extra",
         "8: bad 1 2"}

RECURSIVE RowSeqs(_)
RowSeqs(n) ==
    IF n = 0 THEN {<<>>}
    ELSE RowSeqs(n - 1) \cup
         {Append(rs, r) : rs \in {q \in RowSeqs(n - 1) : Len(q) = n - 1}, r \in Rows}

(* The text of a file of these rows: every row but the last is followed by *)
(* a newline, the last one only when nl.                                   *)
RECURSIVE FileText(_, _)
FileText(rs, nl) ==
    IF rs = <<>> THEN ""
    ELSE IF Len(rs) = 1 THEN rs[1] \o (IF nl THEN "\n" ELSE "")
    ELSE rs[1] \o "\n" \o FileText(Tail(rs), nl)

Files == {FileText(rs, nl) : rs \in RowSeqs(MaxLines), nl \in BOOLEAN}

(* f.readline() at offset pos: the text up to and including the next       *)
(* newline, or up to the end of the file; "" at the end of the file        *)
RECURSIVE LineEnd(_, _)
LineEnd(s, i) ==
    IF i >= Len(s) THEN Len(s)
    ELSE IF Ch(s, i + 1) = "\n" THEN i + 1
    ELSE LineEnd(s, i + 1)

readline(s, pos) == SubSeq(s, pos + 1, LineEnd(s, pos))

Init ==
    /\ input \in Files
    /\ fpos = 0
    /\ parts = <<>>
    /\ cur = 0
    /\ out = <<>>
    /\ pc = "slurp"
    /\ fields = NoFields
    /\ line = ""
    /\ args = NoArgs
    /\ obj = NotCalled
    /\ ret = NoCall

(* slurp, one turn of the loop: the line read parses and is appended       *)
SlurpAppend ==
    /\ pc = "slurp"
    /\ LET l == readline(input, fpos)
           p == parse(l)
       IN  /\ l # ""
           /\ ~IsError(p)
           /\ parts' = Append(parts, p)
           /\ fpos' = fpos + Len(l)
    /\ UNCHANGED <<input, cur, out, pc, harnessVars>>

(* slurp skipping the line that does not parse (mutant)                   *)
SlurpRaise_skip ==
    /\ pc = "slurp"
    /\ LET l == readline(input, fpos)
           p == parse(l)
       IN  /\ l # ""
           /\ IsError(p)
           /\ fpos' = fpos + Len(l)
    /\ UNCHANGED <<input, parts, cur, out, pc, harnessVars>>

(* slurp, one turn of the loop: parse raises, nothing catches it, the      *)
(* with statement closes the file and the program ends                     *)
SlurpRaise ==
    /\ pc = "slurp"
    /\ LET l == readline(input, fpos)
           p == parse(l)
       IN  /\ l # ""
           /\ IsError(p)
           /\ fpos' = fpos + Len(l)
    /\ pc' = "failed"
    /\ UNCHANGED <<input, parts, cur, out, harnessVars>>

(* slurp: readline returns "" at the end of the file, slurp returns parts  *)
SlurpReturn ==
    /\ pc = "slurp"
    /\ readline(input, fpos) = ""
    /\ pc' = "print"
    /\ cur' = 0
    /\ UNCHANGED <<input, fpos, parts, out, harnessVars>>

(* The size test with >= for > (mutant)                                   *)
TooBig_at_limit(p) == size(p) >= SIZE_LIMIT

TooBig(p) == size(p) > SIZE_LIMIT

SkipComment(p) ==
    "# skipping " \o p.name \o " (size 0x" \o FormatHex(size(p))
                  \o " > 0x" \o FormatHex(SIZE_LIMIT) \o ")"

(* print_dump_commands, one turn of the loop: the record is too big        *)
PrintDumpSkip ==
    /\ pc = "print"
    /\ cur < Len(parts)
    /\ TooBig(parts[cur + 1])
    /\ out' = Append(out, SkipComment(parts[cur + 1]))
    /\ cur' = cur + 1
    /\ UNCHANGED <<input, fpos, parts, pc, harnessVars>>

(* The command put before the lines already printed (mutant)              *)
PrintDumpCommand_first ==
    /\ pc = "print"
    /\ cur < Len(parts)
    /\ ~TooBig(parts[cur + 1])
    /\ out' = <<make_dump_command(parts[cur + 1])>> \o out
    /\ cur' = cur + 1
    /\ UNCHANGED <<input, fpos, parts, pc, harnessVars>>

(* print_dump_commands, one turn of the loop: the command is printed       *)
PrintDumpCommand ==
    /\ pc = "print"
    /\ cur < Len(parts)
    /\ ~TooBig(parts[cur + 1])
    /\ out' = Append(out, make_dump_command(parts[cur + 1]))
    /\ cur' = cur + 1
    /\ UNCHANGED <<input, fpos, parts, pc, harnessVars>>

(* print_dump_commands returns, and main with it                           *)
PrintDumpReturn ==
    /\ pc = "print"
    /\ cur = Len(parts)
    /\ pc' = "done"
    /\ UNCHANGED <<input, fpos, parts, cur, out, harnessVars>>

Next ==
    \/ SlurpAppend
    \/ SlurpRaise
    \/ SlurpReturn
    \/ PrintDumpSkip
    \/ PrintDumpCommand
    \/ PrintDumpReturn

Spec == Init /\ [][Next]_vars

-----------------------------------------------------------------------------
(* Properties of PartInfo.parse, checked under SpecParse                   *)

(* The decimal texts among the pieces, and the numbers they denote         *)
DecimalTexts == {"0", "12", "007", "8192", "65537", "2048"}

DecValue(t) ==
    CASE t = "0" -> 0 [] t = "12" -> 12 [] t = "007" -> 7
      [] t = "8192" -> 8192 [] t = "65537" -> 65537 [] t = "2048" -> 2048

(* The pieces up to and including the whitespace after OFFSET have the     *)
(* form  <whitespace>INDEX:<whitespace>NAME<whitespace>SIZE @ OFFSET<whitespace> *)
PrefixForm(f) ==
    /\ f.index \in DecimalTexts
    /\ f.colon = ":"
    /\ f.sep1 # ""
    /\ f.name \in Names
    /\ f.sep2 # ""
    /\ f.size \in DecimalTexts
    /\ f.at \in {" @ ", "\t@\t"}
    /\ f.offset \in DecimalTexts
    /\ f.trail # ""

(* The whole line has that form: nothing follows the trailing whitespace   *)
WholeLineForm(f) == PrefixForm(f) /\ f.extra = ""

RecordOf(f) ==
    [index |-> DecValue(f.index), name |-> f.name,
     start_block |-> DecValue(f.offset), blocks |-> DecValue(f.size)]

Parsed == obj # NotCalled

(* C1: for every line of the form '<ws>INDEX: NAME SIZE @ OFFSET<ws>',     *)
(* parse returns the record with index = INDEX, name = NAME,               *)
(* start_block = OFFSET and blocks = SIZE (size and offset not swapped).   *)
C1_ParseRoundTrip ==
    (Parsed /\ WholeLineForm(fields)) => obj = RecordOf(fields)

C1_Witness ==
    /\ Parsed
    /\ WholeLineForm(fields)
    /\ line = " \t007: boot  8192 @ 2048   \n"
    /\ obj = [index |-> 7, name |-> "boot", start_block |-> 2048, blocks |-> 8192]

(* C5: parse of the empty string, of a blank line, of a line without the   *)
(* '@' and of a line whose size field is not all decimal digits raises the *)
(* parse error and returns no record.                                      *)
C5_ParseRejects ==
    (Parsed /\ (\/ line = ""
                \/ fields.index = ""
                \/ fields.at = "  "
                \/ fields.size \notin DecimalTexts))
        => obj = ValueError("regex doesn't match")

C5_Witness ==
    /\ Parsed
    /\ line = "0: boot 8x92 @ 2048 "
    /\ IsError(obj)

(* C6 as claimed: a line is accepted only if the whole line has the form;  *)
(* text after the whitespace that follows OFFSET makes parse fail.         *)
C6_WholeLineOnly ==
    (Parsed /\ ~IsError(obj)) => WholeLineForm(fields)

(* C6 as amended: a line is accepted exactly when its beginning, up to and *)
(* including at least one whitespace character after OFFSET, has the form; *)
(* whatever follows is ignored and the record is that of the beginning.    *)
C6_PrefixOnly ==
    Parsed =>
        /\ ~IsError(obj) <=> PrefixForm(fields)
        /\ ~IsError(obj) => obj = RecordOf(fields)

C6_Witness ==
    /\ Parsed
    /\ line = "0: boot 8192 @ 2048 extra"
    /\ obj = [index |-> 0, name |-> "boot", start_block |-> 2048, blocks |-> 8192]

-----------------------------------------------------------------------------
(* Properties of the constructor and the methods, checked under            *)
(* SpecPartInfo                                                            *)

Constructed == obj # NotCalled

(* C7: the constructor raises the validation error when index, start_block *)
(* or blocks is negative, and otherwise (zeros included) stores exactly    *)
(* the four values given.                                                  *)
C7_InitValidates ==
    Constructed =>
        IF args.index < 0 \/ args.start_block < 0 \/ args.blocks < 0
        THEN IsError(obj) /\ obj.exc = "ValueError"
        ELSE obj = args

C7_Witness ==
    /\ Constructed
    /\ args.index = 0 /\ args.start_block = 0 /\ args.blocks = -1
    /\ IsError(obj)

(* The lowercase hexadecimal text of the byte counts of BlockValues        *)
HexOfSize(n) ==
    CASE n = 0 -> "0" [] n = 512 -> "200" [] n = 1024 -> "400"
      [] n = 1536 -> "600" [] n = 2048 -> "800" [] n = 10752 -> "2a00"
      [] n = 4194304 -> "400000" [] n = 33554432 -> "2000000"
      [] n = 33554944 -> "2000200"

DumpCommandText(name, sizeHex, indexDec) ==
    "mmc read.p 0x25000000 " \o name \o " 0x" \o sizeHex
        \o "; fatwrite usb 0:1 0x25000000 part" \o indexDec \o ".bin 0x" \o sizeHex

(* C8: make_dump_command returns 'mmc read.p 0x25000000 <name> 0x<S>;      *)
(* fatwrite usb 0:1 0x25000000 part<index>.bin 0x<S>', S = blocks * 512 in *)
(* lowercase hexadecimal without leading zeros, the index in decimal       *)
(* without padding; {0, boot, 2048, 8192} gives the command of the spec.   *)
C8_DumpCommandFormat ==
    ret.fn = "make_dump_command" =>
        /\ ret.val = DumpCommandText(obj.name, HexOfSize(obj.blocks * 512),
                                     ToString(obj.index))
        /\ obj = [index |-> 0, name |-> "boot", start_block |-> 2048, blocks |-> 8192]
             => ret.val = "mmc read.p 0x25000000 boot 0x400000; fatwrite usb 0:1 0x25000000 part0.bin 0x400000"

C8_Witness ==
    /\ obj = [index |-> 12, name |-> "a_1", start_block |-> 0, blocks |-> 21]
    /\ ret = [fn |-> "make_dump_command",
              val |-> "mmc read.p 0x25000000 a_1 0x2a00; fatwrite usb 0:1 0x25000000 part12.bin 0x2a00"]

(* C9: size() = blocks * 512, start() = start_block * 512 and              *)
(* end() = start() + size().                                               *)
C9_SizeStartEnd ==
    /\ ret.fn = "size" => ret.val = obj.blocks * 512
    /\ ret.fn = "start" => ret.val = obj.start_block * 512
    /\ ret.fn = "end" => ret.val = obj.start_block * 512 + obj.blocks * 512

C9_Witness ==
    /\ obj = [index |-> 0, name |-> "boot", start_block |-> 2048, blocks |-> 8192]
    /\ ret = [fn |-> "end", val |-> 5242880]

-----------------------------------------------------------------------------
(* Properties of a run of the program, checked under Spec                  *)

NewlineAt(s) == {i \in 1 .. Len(s) : Ch(s, i) = "\n"}

(* The lines of a text: each ends with its newline, but for a last line    *)
(* that has none                                                           *)
LinesOf(s) ==
    LET nl      == NewlineAt(s)
        count   == Cardinality(nl) + (IF Len(s) > 0 /\ Len(s) \notin nl THEN 1 ELSE 0)
        stop(k) == IF k > Cardinality(nl) THEN Len(s)
                   ELSE CHOOSE i \in nl : Cardinality({j \in nl : j <= i}) = k
    IN  [k \in 1 .. count |->
            SubSeq(s, (IF k = 1 THEN 0 ELSE stop(k - 1)) + 1, stop(k))]

InputLines == LinesOf(input)

Terminated(l) == Len(l) > 0 /\ Ch(l, Len(l)) = "\n"

RowOf(l) == IF Terminated(l) THEN SubSeq(l, 1, Len(l) - 1) ELSE l

(* The rows that end right after the OFFSET digits                         *)
RowsEndingAfterOffset == {" 12: big_1 65537 @ 10240", "3: lim 65536 @ 0", "\t4: nil 0 @ 7"}

(* The line begins with INDEX: NAME SIZE @ OFFSET and whitespace           *)
MatchesPattern(l) ==
    \/ RowOf(l) \in {"0: boot 8192 @ 2048   ", "7: x 1 @ 2 extra"}
    \/ RowOf(l) \in RowsEndingAfterOffset /\ Terminated(l)

(* The line printed for a line of the input                                *)
OutputFor(l) ==
    CASE RowOf(l) = "0: boot 8192 @ 2048   " ->
           "mmc read.p 0x25000000 boot 0x400000; fatwrite usb 0:1 0x25000000 part0.bin 0x400000"
      [] RowOf(l) = " 12: big_1 65537 @ 10240" ->
           "# skipping big_1 (size 0x2000200 > 0x2000000)"
      [] RowOf(l) = "3: lim 65536 @ 0" ->
           "mmc read.p 0x25000000 lim 0x2000000; fatwrite usb 0:1 0x25000000 part3.bin 0x2000000"
      [] RowOf(l) = "\t4: nil 0 @ 7" ->
           "mmc read.p 0x25000000 nil 0x0; fatwrite usb 0:1 0x25000000 part4.bin 0x0"
      [] RowOf(l) = "7: x 1 @ 2 extra" ->
           "mmc read.p 0x25000000 x 0x200; fatwrite usb 0:1 0x25000000 part7.bin 0x200"

Printing == pc \in {"print", "done"}

(* C2: print_dump_commands prints one line per record: the skip comment    *)
(* and no command when blocks * 512 > 0x2000000, the dump command          *)
(* otherwise (blocks = 0x10000 and blocks = 0 included); records after a   *)
(* skipped one still get their line.                                       *)
C2_SkipOrDump ==
    Printing =>
        /\ Len(out) = cur
        /\ cur <= Len(parts)
        /\ pc = "done" => cur = Len(parts)
        /\ \A k \in 1 .. Len(out) :
              out[k] = IF parts[k].blocks * 512 > 33554432
                       THEN "# skipping " \o parts[k].name \o " (size 0x"
                                \o HexOfSize(parts[k].blocks * 512) \o " > 0x2000000)"
                       ELSE DumpCommandText(parts[k].name, HexOfSize(parts[k].blocks * 512),
                                            ToString(parts[k].index))

C2_Witness ==
    /\ pc = "done"
    /\ Len(parts) = 3
    /\ parts[1].blocks = 65537 /\ parts[2].blocks = 65536 /\ parts[3].blocks = 0
    /\ out = << "# skipping big_1 (size 0x2000200 > 0x2000000)",
                "mmc read.p 0x25000000 lim 0x2000000; fatwrite usb 0:1 0x25000000 part3.bin 0x2000000",
                "mmc read.p 0x25000000 nil 0x0; fatwrite usb 0:1 0x25000000 part4.bin 0x0" >>

(* C3: when a line of the input does not match the pattern, nothing is     *)
(* ever printed, no line after the bad one is taken in (it is not skipped) *)
(* and the run ends failed.                                                *)
C3_AllOrNothing ==
    LET bad == {k \in 1 .. Len(InputLines) : ~MatchesPattern(InputLines[k])}
    IN  /\ pc = "failed" => out = <<>>
        /\ bad # {} =>
              /\ out = <<>>
              /\ pc \in {"slurp", "failed"}
              /\ \A k \in bad : Len(parts) < k
              /\ fpos = Len(input) => pc = "failed"

C3_Witness ==
    /\ input = "0: boot 8192 @ 2048   \n8: bad 1 2\n3: lim 65536 @ 0\n"
    /\ pc = "failed"
    /\ Len(parts) = 1
    /\ out = <<>>

(* C4: the k-th line printed is the line for the k-th line of the input,   *)
(* a successful run prints as many lines as the input has (repeated lines  *)
(* included), and the empty input gives no output and no failure.          *)
C4_OrderPreserved ==
    /\ Printing =>
          /\ Len(out) <= Len(InputLines)
          /\ \A k \in 1 .. Len(out) : out[k] = OutputFor(InputLines[k])
    /\ pc = "done" => Len(out) = Len(InputLines)
    /\ input = "" => pc # "failed" /\ out = <<>>

C4_Witness ==
    /\ input = "3: lim 65536 @ 0\n0: boot 8192 @ 2048   \n3: lim 65536 @ 0\n"
    /\ pc = "done"
    /\ out = << "mmc read.p 0x25000000 lim 0x2000000; fatwrite usb 0:1 0x25000000 part3.bin 0x2000000",
                "mmc read.p 0x25000000 boot 0x400000; fatwrite usb 0:1 0x25000000 part0.bin 0x400000",
                "mmc read.p 0x25000000 lim 0x2000000; fatwrite usb 0:1 0x25000000 part3.bin 0x2000000" >>

(* C10: a last line that ends right after the OFFSET digits, with no       *)
(* newline, is never taken in and fails the run; lines that begin with     *)
(* INDEX, without leading whitespace, are taken in.                        *)
C10_TrailingWhitespaceRequired ==
    LET n == Len(InputLines)
    IN  /\ (n > 0 /\ InputLines[n] \in RowsEndingAfterOffset) =>
              /\ Len(parts) < n
              /\ out = <<>>
              /\ fpos = Len(input) => pc = "failed"
        /\ (\A k \in 1 .. n : InputLines[k] \in {"3: lim 65536 @ 0\n", "0: boot 8192 @ 2048   \n"}) =>
              /\ pc # "failed"
              /\ fpos = Len(input) => Len(parts) = n

C10_Witness ==
    /\ input = "3: lim 65536 @ 0\n3: lim 65536 @ 0"
    /\ pc = "failed"
    /\ Len(parts) = 1
    /\ out = <<>>

====
